---- MODULE Spec2Model ----
(***************************************************************************)
(* State machine of the WebRTC streaming context                           *)
(* (frontend/src/contexts/WebRTCContext.js): the reducer-backed Session    *)
(* state, the signaling socket held in socketRef, the peer registry held   *)
(* in peerConnectionsRef, the asynchronous negotiation handlers and the    *)
(* public Session API.                                                     *)
(***************************************************************************)
EXTENDS Integers, Sequences, FiniteSets, TLC

\* ------------------------------------------------------------------ bounds
MaxSockets == 2     \* sockets created by io() in one run
MaxPeers == 2       \* RTCPeerConnection objects created in one run
MaxTasks == 1       \* asynchronous handlers suspended at the same time
MaxSent == 1        \* envelopes written or buffered by socket.emit in one run
MaxChat == 2        \* chat_message envelopes received between two clears
MaxStreams == 2     \* local media streams granted by getUserMedia
MaxTextLen == 3     \* length of a text given to sendChatMessage
MaxAppends == 102   \* chat_message envelopes received in SpecChat
MaxRun == 4         \* remote-stream actions dispatched in SpecRoster
MaxLog == 3         \* user_joined / user_left envelopes routed in SpecPresence
MaxLoads == 2       \* loadStreamInfo calls awaiting the metadata service at once
MaxHandlers == 2    \* negotiation handlers suspended at once in SpecNegotiation

\* ------------------------------------------------------- program constants
ChatLimit == 100    \* .slice(-100)

Users == {"u1", "u2"}
StreamIds == {"s1", "s2"}
NoStream == "null"          \* currentStreamId: null
NoError == "null"           \* error: null
NoInfo == "null"            \* streamInfo: null
NoMedia == 0                \* localStream: null
NoSocket == 0               \* socketRef.current: null
NoData == 0                 \* data.data of an envelope without a data field: undefined
Chars == {" ", "a"}
RemoteMedia == {1, 2}       \* MediaStream objects delivered by ontrack
ErrCamera == "Failed to access camera/microphone"
ErrStart == "Failed to start streaming"
ErrServer == "server error"

\* AuthContext's user: null, or an account with its roles and subscription tier
NoUser == [loggedIn |-> FALSE, roles |-> {}, subscription_tier |-> "free"]
Accounts ==
    {[loggedIn |-> TRUE, roles |-> {"user"}, subscription_tier |-> "free"],
     [loggedIn |-> TRUE, roles |-> {"user"}, subscription_tier |-> "premium"],
     [loggedIn |-> TRUE, roles |-> {"user"}, subscription_tier |-> "vip"],
     [loggedIn |-> TRUE, roles |-> {"model"}, subscription_tier |-> "free"],
     [loggedIn |-> TRUE, roles |-> {"admin"}, subscription_tier |-> "free"]}

\* info.stream_type as the metadata service may return it
StreamTypes == {"public", "private", "premium", "unknown"}
NoStreamInfo == [streamId |-> NoStream, stream_type |-> "null"]

VARIABLES
    state,                \* the useReducer state
    socketRef,            \* socketRef.current: index into sockets, or NoSocket
    sockets,              \* every socket io() has returned
    peerConnectionsRef,   \* peerConnectionsRef.current: participant -> index into pcs
    pcs,                  \* every RTCPeerConnection constructed
    tasks,                \* suspended async handlers (awaiting a promise)
    sent,                 \* envelopes put on the wire, in order
    nStreams,             \* local media streams granted so far
    liveTracks,           \* local media streams whose tracks are not stopped
    arrivals,             \* chat messages appended since the log was last emptied
    dispatched,           \* remote-stream actions dispatched to the store, in order
    joinLog,              \* console lines of user_joined / user_left, in order
    viewer                \* the StreamViewer component: props, state, pending loads

vars == <<state, socketRef, sockets, peerConnectionsRef, pcs, tasks, sent,
          nStreams, liveTracks, arrivals, dispatched, joinLog, viewer>>

\* ----------------------------------------------------------------- helpers
EmptyMap == [u \in {} |-> 0]

\* the last n elements of s: Array.prototype.slice(-n)
SliceLast(s, n) ==
    IF Len(s) <= n THEN s ELSE SubSeq(s, Len(s) - n + 1, Len(s))

\* s without its i-th element
RemoveAt(s, i) == SubSeq(s, 1, i - 1) \o SubSeq(s, i + 1, Len(s))

RECURSIVE TrimStart(_)
TrimStart(t) ==
    IF t # <<>> /\ Head(t) = " " THEN TrimStart(Tail(t)) ELSE t

RECURSIVE TrimEnd(_)
TrimEnd(t) ==
    IF t # <<>> /\ t[Len(t)] = " " THEN TrimEnd(SubSeq(t, 1, Len(t) - 1)) ELSE t

\* a trim that strips the leading whitespace only
TrimLeadingOnly(t) == TrimStart(t)

\* String.prototype.trim
Trim(t) == TrimEnd(TrimStart(t))

Texts == UNION {[1..n -> Chars] : n \in 0..MaxTextLen}

\* --------------------------------------------------------- Session state
initialState ==
    [localStream |-> NoMedia,
     remoteStreams |-> EmptyMap,
     isStreaming |-> FALSE,
     isViewing |-> FALSE,
     connectionState |-> "disconnected",
     chatMessages |-> <<>>,
     streamInfo |-> NoInfo,
     viewers |-> {},
     error |-> NoError,
     isConnected |-> FALSE,
     currentStreamId |-> NoStream]

AddRemoteStream(rs, userId, stream) ==
    [u \in DOMAIN rs \cup {userId} |-> IF u = userId THEN stream ELSE rs[u]]

\* a removal that empties the whole map
RemoveRemoteStreamAll(rs, userId) == EmptyMap

RemoveRemoteStream(rs, userId) ==
    [u \in DOMAIN rs \ {userId} |-> rs[u]]

\* a log that stops taking messages once it is full
AppendChatKeepFirst(log, message) ==
    IF Len(log) < ChatLimit THEN Append(log, message) ELSE log

AppendChat(log, message) == SliceLast(Append(log, message), ChatLimit)

\* a reset that also leaves the chat log and the last error in place
ResetStateKeepsChat(st) ==
    [initialState EXCEPT !.localStream = st.localStream,
                         !.chatMessages = st.chatMessages,
                         !.error = st.error]

\* a reset that drops the local stream with everything else
ResetStateDropsMedia(st) == initialState

ResetState(st) == [initialState EXCEPT !.localStream = st.localStream]

webrtcReducer(st, action) ==
    CASE action.type = "SET_LOCAL_STREAM" ->
            [st EXCEPT !.localStream = action.payload]
      [] action.type = "ADD_REMOTE_STREAM" ->
            [st EXCEPT !.remoteStreams =
                AddRemoteStream(st.remoteStreams, action.userId, action.stream)]
      [] action.type = "REMOVE_REMOTE_STREAM" ->
            [st EXCEPT !.remoteStreams =
                RemoveRemoteStream(st.remoteStreams, action.userId)]
      [] action.type = "SET_STREAMING" -> [st EXCEPT !.isStreaming = action.payload]
      [] action.type = "SET_VIEWING" -> [st EXCEPT !.isViewing = action.payload]
      [] action.type = "SET_CONNECTION_STATE" ->
            [st EXCEPT !.connectionState = action.payload]
      [] action.type = "ADD_CHAT_MESSAGE" ->
            [st EXCEPT !.chatMessages = AppendChat(st.chatMessages, action.message)]
      [] action.type = "SET_STREAM_INFO" -> [st EXCEPT !.streamInfo = action.payload]
      [] action.type = "UPDATE_VIEWERS" -> [st EXCEPT !.viewers = action.payload]
      [] action.type = "SET_ERROR" -> [st EXCEPT !.error = action.payload]
      [] action.type = "SET_CONNECTED" -> [st EXCEPT !.isConnected = action.payload]
      [] action.type = "SET_CURRENT_STREAM" ->
            [st EXCEPT !.currentStreamId = action.payload]
      [] action.type = "CLEAR_CHAT" -> [st EXCEPT !.chatMessages = <<>>]
      [] action.type = "RESET_STATE" -> ResetState(st)
      [] OTHER -> st

\* a run of dispatch() calls, applied in order
RECURSIVE Dispatch(_, _)
Dispatch(st, actions) ==
    IF actions = <<>> THEN st
    ELSE Dispatch(webrtcReducer(st, Head(actions)), Tail(actions))

Act(type) == [type |-> type]
Set(type, payload) == [type |-> type, payload |-> payload]

\* ------------------------------------------------------- signaling socket
\* io(wsUrl, ...) returns a fresh socket for /ws/stream/<streamId>; nothing is
\* connected yet.  status: opening (created, never connected), refused (a
\* connection attempt failed, the client retries by itself), connected,
\* dropped (transport lost, the client reconnects by itself), closed
\* (socket.disconnect() was called: no event fires on it ever after).
NewSocket(streamId) == [streamId |-> streamId, status |-> "opening", buffer |-> <<>>]

\* socket.disconnect(): "always safe to call"; fires 'disconnect' only when
\* the socket was connected.  What a closed socket has buffered is never written.
Disconnected(socks, ref) ==
    IF ref = NoSocket THEN socks
    ELSE [socks EXCEPT ![ref].status = "closed", ![ref].buffer = <<>>]

\* a socket.disconnect() that does not run the 'disconnect' handler
OnDisconnectSilent(socks, ref) == <<>>

\* the 'disconnect' handler of connectWebSocket, run inside socket.disconnect()
OnDisconnect(socks, ref) ==
    IF ref # NoSocket /\ socks[ref].status = "connected"
    THEN <<Set("SET_CONNECTED", FALSE)>>
    ELSE <<>>

\* the 'connect' handler of connectWebSocket
OnConnect(streamId) ==
    <<Set("SET_CONNECTED", TRUE), Set("SET_CURRENT_STREAM", streamId)>>

\* envelopes handed to emit so far (on the wire or buffered in a socket)
RECURSIVE Buffered(_, _)
Buffered(socks, i) ==
    IF i = 0 THEN 0 ELSE Len(socks[i].buffer) + Buffered(socks, i - 1)

Emitted == Len(sent) + Buffered(sockets, Len(sockets))

Envelope(type, content, target, streamId) ==
    [type |-> type, content |-> content, target_id |-> target, stream_id |-> streamId]

\* socket.emit('message', JSON.stringify(env)) on socketRef.current: a
\* connected socket writes the packet, an opening or dropped one keeps it in
\* its send buffer (written when the socket connects), a closed one never
\* writes it.
EmitSent(env) ==
    IF sockets[socketRef].status = "connected"
    THEN Append(sent, env)
    ELSE sent

EmitSockets(env) ==
    IF sockets[socketRef].status \in {"connected", "closed"}
    THEN sockets
    ELSE [sockets EXCEPT ![socketRef].buffer = Append(@, env)]

\* a connectWebSocket that holds a new socket without disconnecting the old
ConnectWebSocketKeepsOld(streamId) ==
    /\ sockets' = Append(sockets, NewSocket(streamId))
    /\ socketRef' = Len(sockets) + 1

\* connectWebSocket(streamId): disconnect the socket held, hold a new one
ConnectWebSocket(streamId) ==
    /\ sockets' = Append(Disconnected(sockets, socketRef), NewSocket(streamId))
    /\ socketRef' = Len(sockets) + 1

Connected == socketRef # NoSocket /\ sockets[socketRef].status = "connected"

\* ---------------------------------------------------------- peer registry
NewPeer(userId) ==
    [userId |-> userId, closed |-> FALSE, connectionState |-> "new",
     remoteSet |-> FALSE, localSet |-> FALSE, tracks |-> {}]

\* the connection after pc.close(): closed for good, it raises no event and
\* rejects every negotiation call
ClosedPeer(userId) ==
    [userId |-> userId, closed |-> TRUE, connectionState |-> "closed",
     remoteSet |-> FALSE, localSet |-> FALSE, tracks |-> {}]

\* pc.close() on every registered connection
CloseAll(ps, reg) ==
    [i \in DOMAIN ps |->
        IF \E u \in DOMAIN reg : reg[u] = i
        THEN ClosedPeer(ps[i].userId)
        ELSE ps[i]]

\* the state the handlers created by the provider's first render see: with
\* useCallback(..., []) the router keeps calling the first render's
\* handleRemoteOffer and createPeerConnection, whose `state` is initialState.
routerState == initialState

Task(kind, sender, pc, step, streamId) ==
    [kind |-> kind, sender |-> sender, pc |-> pc, step |-> step, streamId |-> streamId]

\* a Session call (startStreaming, joinStream, stopStreaming) was made while
\* these handlers were suspended: a startStreaming still awaiting its media is
\* from now on an earlier call (step 1; it is 0 while it is the latest call).
\* The code keeps no such mark; it is kept here to tell the calls apart.
Overtake(ts) ==
    [i \in DOMAIN ts |->
        IF ts[i].kind = "start" THEN [ts[i] EXCEPT !.step = 1] ELSE ts[i]]

\* ----------------------------------------------------------------- Init
Init ==
    /\ state = initialState
    /\ socketRef = NoSocket
    /\ sockets = <<>>
    /\ peerConnectionsRef = EmptyMap
    /\ pcs = <<>>
    /\ tasks = <<>>
    /\ sent = <<>>
    /\ nStreams = 0
    /\ liveTracks = {}
    /\ arrivals = <<>>
    /\ dispatched = <<>>
    /\ joinLog = <<>>
    /\ viewer = [isOpen |-> FALSE, streamId |-> NoStream, user |-> NoUser,
                 streamInfo |-> NoStreamInfo, loading |-> TRUE, loads |-> <<>>]

\* ------------------------------------------------------ Public Session API
\* a joinStream that leaves the chat log of the previous Session in place
JoinStreamKeepsChat(streamId) ==
    /\ Len(sockets) < MaxSockets
    /\ state' = Dispatch(state,
                    <<Set("SET_ERROR", NoError)>>
                    \o OnDisconnect(sockets, socketRef)
                    \o <<Set("SET_VIEWING", TRUE),
                         Set("SET_CONNECTION_STATE", "connecting")>>)
    /\ ConnectWebSocket(streamId)
    /\ tasks' = Overtake(tasks)
    /\ UNCHANGED <<peerConnectionsRef, pcs, sent, nStreams, liveTracks,
                   arrivals, dispatched, joinLog, viewer>>

\* joinStream(streamId), as any caller runs it
JoinStreamCall(streamId) ==
    /\ Len(sockets) < MaxSockets
    /\ state' = Dispatch(state,
                    <<Set("SET_ERROR", NoError), Act("CLEAR_CHAT")>>
                    \o OnDisconnect(sockets, socketRef)
                    \o <<Set("SET_VIEWING", TRUE),
                         Set("SET_CONNECTION_STATE", "connecting")>>)
    /\ ConnectWebSocket(streamId)
    /\ arrivals' = <<>>
    /\ tasks' = Overtake(tasks)
    /\ UNCHANGED <<peerConnectionsRef, pcs, sent, nStreams, liveTracks, dispatched,
                   joinLog>>

\* joinStream(streamId) called from outside the viewer component
JoinStream(streamId) == JoinStreamCall(streamId) /\ UNCHANGED viewer

\* startStreaming(streamId), up to `await initializeCamera(...)`
StartStreaming(streamId) ==
    /\ Len(tasks) < MaxTasks
    /\ state' = Dispatch(state, <<Set("SET_ERROR", NoError)>>)
    /\ tasks' = Append(Overtake(tasks), Task("start", "", 0, 0, streamId))
    /\ UNCHANGED <<socketRef, sockets, peerConnectionsRef, pcs, sent, nStreams,
                   liveTracks, arrivals, dispatched, joinLog, viewer>>

\* initializeCamera(), up to `await getUserMedia(...)`
InitializeCamera ==
    /\ Len(tasks) < MaxTasks
    /\ tasks' = Append(tasks, Task("camera", "", 0, 0, NoStream))
    /\ UNCHANGED <<state, socketRef, sockets, peerConnectionsRef, pcs, sent,
                   nStreams, liveTracks, arrivals, dispatched, joinLog, viewer>>

\* getUserMedia resolves: initializeCamera stores the stream; startStreaming
\* goes on to connectWebSocket and the two dispatches
CameraGranted(i) ==
    /\ i \in DOMAIN tasks
    /\ tasks[i].kind \in {"start", "camera"}
    /\ nStreams < MaxStreams
    /\ tasks[i].kind = "start" => Len(sockets) < MaxSockets
    /\ nStreams' = nStreams + 1
    /\ liveTracks' = liveTracks \cup {nStreams + 1}
    /\ tasks' = RemoveAt(tasks, i)
    /\ IF tasks[i].kind = "start"
       THEN /\ state' = Dispatch(state,
                            <<Set("SET_LOCAL_STREAM", nStreams + 1)>>
                            \o OnDisconnect(sockets, socketRef)
                            \o <<Set("SET_STREAMING", TRUE),
                                 Set("SET_CONNECTION_STATE", "connecting")>>)
            /\ ConnectWebSocket(tasks[i].streamId)
       ELSE /\ state' = Dispatch(state, <<Set("SET_LOCAL_STREAM", nStreams + 1)>>)
            /\ UNCHANGED <<socketRef, sockets>>
    /\ UNCHANGED <<peerConnectionsRef, pcs, sent, arrivals, dispatched, joinLog, viewer>>

\* getUserMedia rejects: initializeCamera records the error and rethrows;
\* startStreaming's catch records its own and rethrows
CameraDenied(i) ==
    /\ i \in DOMAIN tasks
    /\ tasks[i].kind \in {"start", "camera"}
    /\ tasks' = RemoveAt(tasks, i)
    /\ state' = Dispatch(state,
                    <<Set("SET_ERROR", ErrCamera)>>
                    \o (IF tasks[i].kind = "start"
                        THEN <<Set("SET_ERROR", ErrStart)>> ELSE <<>>))
    /\ UNCHANGED <<socketRef, sockets, peerConnectionsRef, pcs, sent, nStreams,
                   liveTracks, arrivals, dispatched, joinLog, viewer>>

\* a sendChatMessage that checks the socket but not isConnected
SendChatMessageUnguarded(message) ==
    /\ socketRef # NoSocket => Emitted < MaxSent
    /\ IF socketRef # NoSocket
       THEN /\ sent' = EmitSent(Envelope("chat_message", Trim(message), "",
                                         state.currentStreamId))
            /\ sockets' = EmitSockets(Envelope("chat_message", Trim(message), "",
                                               state.currentStreamId))
       ELSE UNCHANGED <<sent, sockets>>
    /\ UNCHANGED <<state, socketRef, peerConnectionsRef, pcs, tasks, nStreams,
                   liveTracks, arrivals, dispatched, joinLog, viewer>>

\* a sendChatMessage that also appends the message to the local chat log
SendChatMessageOptimistic(message) ==
    /\ (socketRef # NoSocket /\ state.isConnected) => Emitted < MaxSent
    /\ IF socketRef # NoSocket /\ state.isConnected
       THEN /\ sent' = EmitSent(Envelope("chat_message", Trim(message), "",
                                         state.currentStreamId))
            /\ sockets' = EmitSockets(Envelope("chat_message", Trim(message), "",
                                               state.currentStreamId))
            /\ state' = Dispatch(state, <<[type |-> "ADD_CHAT_MESSAGE",
                                           message |-> 0]>>)
       ELSE UNCHANGED <<sent, sockets, state>>
    /\ UNCHANGED <<socketRef, peerConnectionsRef, pcs, tasks, nStreams,
                   liveTracks, arrivals, dispatched, joinLog, viewer>>

\* sendChatMessage(message)
SendChatMessage(message) ==
    /\ (socketRef # NoSocket /\ state.isConnected) => Emitted < MaxSent
    /\ IF socketRef # NoSocket /\ state.isConnected
       THEN /\ sent' = EmitSent(Envelope("chat_message", Trim(message), "",
                                         state.currentStreamId))
            /\ sockets' = EmitSockets(Envelope("chat_message", Trim(message), "",
                                               state.currentStreamId))
       ELSE UNCHANGED <<sent, sockets>>
    /\ UNCHANGED <<state, socketRef, peerConnectionsRef, pcs, tasks, nStreams,
                   liveTracks, arrivals, dispatched, joinLog, viewer>>

\* track.stop() on every track of the local stream the Session holds
StoppedTracks(live, localStream) == live \ {localStream}

\* what stopStreaming() dispatches, the 'disconnect' handler included
StopStreamingDispatch(socks, ref) == OnDisconnect(socks, ref) \o <<Act("RESET_STATE")>>

\* stopStreaming()
StopStreaming ==
    /\ liveTracks' = StoppedTracks(liveTracks, state.localStream)
    /\ pcs' = CloseAll(pcs, peerConnectionsRef)
    /\ peerConnectionsRef' = EmptyMap
    /\ sockets' = Disconnected(sockets, socketRef)
    /\ state' = Dispatch(state, StopStreamingDispatch(sockets, socketRef))
    /\ arrivals' = <<>>
    /\ tasks' = Overtake(tasks)
    /\ UNCHANGED <<socketRef, sent, nStreams, dispatched, joinLog, viewer>>

\* a stopViewing() that forgets the registry without closing the connections
StopViewingLeavesPeersOpen ==
    /\ peerConnectionsRef' = EmptyMap
    /\ sockets' = Disconnected(sockets, socketRef)
    /\ state' = Dispatch(state,
                    OnDisconnect(sockets, socketRef)
                    \o <<Set("SET_VIEWING", FALSE), Set("SET_CONNECTED", FALSE),
                         Set("SET_CONNECTION_STATE", "disconnected")>>)
    /\ UNCHANGED <<socketRef, pcs, tasks, sent, nStreams, liveTracks, arrivals,
                   dispatched, joinLog>>

\* the body of stopViewing(), shared by the API call and the router
StopViewingBody ==
    /\ pcs' = CloseAll(pcs, peerConnectionsRef)
    /\ peerConnectionsRef' = EmptyMap
    /\ sockets' = Disconnected(sockets, socketRef)
    /\ state' = Dispatch(state,
                    OnDisconnect(sockets, socketRef)
                    \o <<Set("SET_VIEWING", FALSE), Set("SET_CONNECTED", FALSE),
                         Set("SET_CONNECTION_STATE", "disconnected")>>)
    /\ UNCHANGED <<socketRef, tasks, sent, nStreams, liveTracks, arrivals, dispatched,
                   joinLog>>

\* stopViewing() called from outside the viewer component
StopViewing == StopViewingBody /\ UNCHANGED viewer

\* ------------------------------------------------------ socket events
\* 'connect' on the socket held (first connect, or the client's reconnect);
\* the socket writes what its send buffer holds
SocketConnect ==
    /\ socketRef # NoSocket
    /\ sockets[socketRef].status \in {"opening", "refused", "dropped"}
    /\ sockets' = [sockets EXCEPT ![socketRef].status = "connected",
                                  ![socketRef].buffer = <<>>]
    /\ sent' = sent \o sockets[socketRef].buffer
    /\ state' = Dispatch(state, OnConnect(sockets[socketRef].streamId))
    /\ UNCHANGED <<socketRef, peerConnectionsRef, pcs, tasks, nStreams, liveTracks,
                   arrivals, dispatched, joinLog, viewer>>

\* 'connect_error' on the socket held: the attempt to open the channel
\* failed.  connectWebSocket registers no handler for it, so nothing is
\* dispatched and nothing is thrown to the caller of connectWebSocket.
SocketConnectError ==
    /\ socketRef # NoSocket
    /\ sockets[socketRef].status = "opening"
    /\ sockets' = [sockets EXCEPT ![socketRef].status = "refused"]
    /\ UNCHANGED <<state, socketRef, peerConnectionsRef, pcs, tasks, sent, nStreams,
                   liveTracks, arrivals, dispatched, joinLog, viewer>>

\* 'disconnect' on the socket held: the transport dropped
SocketDrop ==
    /\ Connected
    /\ sockets' = [sockets EXCEPT ![socketRef].status = "dropped"]
    /\ state' = Dispatch(state, <<Set("SET_CONNECTED", FALSE)>>)
    /\ UNCHANGED <<socketRef, peerConnectionsRef, pcs, tasks, sent, nStreams,
                   liveTracks, arrivals, dispatched, joinLog, viewer>>

\* ------------------------------------------- handleWebSocketMessage (router)
\* case 'chat_message'; cap bounds the messages received between two clears
RecvChatMessage(cap) ==
    /\ Connected
    /\ Len(arrivals) < cap
    /\ state' = Dispatch(state, <<[type |-> "ADD_CHAT_MESSAGE",
                                   message |-> Len(arrivals) + 1]>>)
    /\ arrivals' = Append(arrivals, Len(arrivals) + 1)
    /\ UNCHANGED <<socketRef, sockets, peerConnectionsRef, pcs, tasks, sent,
                   nStreams, liveTracks, dispatched, joinLog, viewer>>

\* case 'user_joined' | 'user_left' | 'stream_started' | default: logged only
RecvLogged(type) ==
    /\ Connected
    /\ UNCHANGED <<state, socketRef, sockets, peerConnectionsRef, pcs, tasks, sent,
                   nStreams, liveTracks, arrivals, dispatched, joinLog, viewer>>

\* case 'user_joined' | 'user_left' with its data: one console line naming
\* data.data.user_id, nothing dispatched
RecvPresence(type, userId) ==
    /\ Connected
    /\ type \in {"user_joined", "user_left"}
    /\ Len(joinLog) < MaxLog
    /\ joinLog' = Append(joinLog, [type |-> type, userId |-> userId])
    /\ UNCHANGED <<state, socketRef, sockets, peerConnectionsRef, pcs, tasks, sent,
                   nStreams, liveTracks, arrivals, dispatched, viewer>>

\* frames the router cannot handle as their type requires: text that is not
\* JSON, or an envelope of the given type without its data field
MalformedFrames == {"unparseable", "chat_message", "error", "user_joined", "user_left"}

\* a frame of MalformedFrames goes through the router: JSON.parse throws, or
\* data.data.message / data.data.user_id throws a TypeError, and the catch
\* logs it; a chat_message without data throws nothing and is dispatched as
\* ADD_CHAT_MESSAGE with message undefined
RecvMalformed(frame) ==
    /\ Connected
    /\ frame \in MalformedFrames
    /\ IF frame = "chat_message"
       THEN /\ Len(arrivals) < MaxChat
            /\ state' = Dispatch(state, <<[type |-> "ADD_CHAT_MESSAGE",
                                           message |-> NoData]>>)
            /\ arrivals' = Append(arrivals, NoData)
       ELSE UNCHANGED <<state, arrivals>>
    /\ UNCHANGED <<socketRef, sockets, peerConnectionsRef, pcs, tasks, sent,
                   nStreams, liveTracks, dispatched, joinLog, viewer>>

\* case 'stream_ended'
RecvStreamEnded ==
    /\ Connected
    /\ StopViewingBody
    /\ UNCHANGED viewer

\* an error case that also ends the Session as a viewer
RecvErrorStops ==
    /\ Connected
    /\ state' = Dispatch(state, <<Set("SET_ERROR", ErrServer),
                                  Set("SET_VIEWING", FALSE)>>)
    /\ UNCHANGED <<socketRef, sockets, peerConnectionsRef, pcs, tasks, sent,
                   nStreams, liveTracks, arrivals, dispatched, joinLog, viewer>>

\* case 'error'
RecvError ==
    /\ Connected
    /\ state' = Dispatch(state, <<Set("SET_ERROR", ErrServer)>>)
    /\ UNCHANGED <<socketRef, sockets, peerConnectionsRef, pcs, tasks, sent,
                   nStreams, liveTracks, arrivals, dispatched, joinLog, viewer>>

\* an offer handler that constructs a connection for every offer and puts it
\* in the registry, whether the sender has one or not
RecvOfferAlwaysCreates(userId) ==
    /\ Connected
    /\ Len(tasks) < MaxTasks
    /\ Len(pcs) < MaxPeers
    /\ pcs' = Append(pcs, NewPeer(userId))
    /\ peerConnectionsRef' =
           [u \in DOMAIN peerConnectionsRef \cup {userId} |->
               IF u = userId THEN Len(pcs) + 1 ELSE peerConnectionsRef[u]]
    /\ tasks' = Append(tasks, Task("offer", userId, Len(pcs) + 1, 1, NoStream))
    /\ UNCHANGED <<state, socketRef, sockets, sent, nStreams, liveTracks,
                   arrivals, dispatched, joinLog, viewer>>

\* handleRemoteOffer up to `await setRemoteDescription(...)`;
\* createPeerConnection returns the registered connection or registers a new
\* one; cap bounds the handlers suspended at once
HandleRemoteOffer(userId, cap) ==
    /\ Connected
    /\ Len(tasks) < cap
    /\ IF userId \in DOMAIN peerConnectionsRef
       THEN /\ tasks' = Append(tasks, Task("offer", userId,
                                           peerConnectionsRef[userId], 1, NoStream))
            /\ UNCHANGED <<pcs, peerConnectionsRef>>
       ELSE /\ Len(pcs) < MaxPeers
            /\ pcs' = Append(pcs, NewPeer(userId))
            /\ peerConnectionsRef' =
                   [u \in DOMAIN peerConnectionsRef \cup {userId} |->
                       IF u = userId THEN Len(pcs) + 1 ELSE peerConnectionsRef[u]]
            /\ tasks' = Append(tasks, Task("offer", userId, Len(pcs) + 1, 1, NoStream))
    /\ UNCHANGED <<state, socketRef, sockets, sent, nStreams, liveTracks,
                   arrivals, dispatched, joinLog, viewer>>

\* case 'offer'
RecvOffer(userId) == HandleRemoteOffer(userId, MaxTasks)

\* the operations of one RTCPeerConnection run in the order they were
\* called: the first awaited operation of handler i settles only after the
\* first awaited operations of the handlers that arrived before it for the
\* same connection
ChainFree(i) ==
    \A j \in 1..(i - 1) : tasks[j].pc = tasks[i].pc => tasks[j].step # 1

\* setRemoteDescription resolved: attach the local tracks the handler sees,
\* then `await createAnswer()`
OfferRemoteSet(i) ==
    /\ i \in DOMAIN tasks
    /\ tasks[i].kind = "offer" /\ tasks[i].step = 1
    /\ ~pcs[tasks[i].pc].closed
    /\ ChainFree(i)
    /\ pcs' = [pcs EXCEPT ![tasks[i].pc].remoteSet = TRUE,
                          ![tasks[i].pc].tracks =
                              IF routerState.localStream # NoMedia
                              THEN @ \cup {routerState.localStream} ELSE @]
    /\ tasks' = [tasks EXCEPT ![i].step = 2]
    /\ UNCHANGED <<state, socketRef, sockets, peerConnectionsRef, sent, nStreams,
                   liveTracks, arrivals, dispatched, joinLog, viewer>>

\* createAnswer resolved: `await setLocalDescription(answer)`
OfferAnswerCreated(i) ==
    /\ i \in DOMAIN tasks
    /\ tasks[i].kind = "offer" /\ tasks[i].step = 2
    /\ ~pcs[tasks[i].pc].closed
    /\ tasks' = [tasks EXCEPT ![i].step = 3]
    /\ UNCHANGED <<state, socketRef, sockets, peerConnectionsRef, pcs, sent, nStreams,
                   liveTracks, arrivals, dispatched, joinLog, viewer>>

\* a handler that replies to an offer with an offer of its own
AnswerEnvelopeReoffers(sender) ==
    Envelope("offer", <<>>, sender, routerState.currentStreamId)

\* an answer that names no recipient
AnswerEnvelopeUnaddressed(sender) ==
    Envelope("answer", <<>>, "", routerState.currentStreamId)

\* the answer envelope handleRemoteOffer emits
AnswerEnvelope(sender) == Envelope("answer", <<>>, sender, routerState.currentStreamId)

\* a last step of the offer handler that runs on a closed connection too
OfferLocalSetUnchecked(i) ==
    /\ i \in DOMAIN tasks
    /\ tasks[i].kind = "offer" /\ tasks[i].step = 3
    /\ socketRef # NoSocket => Emitted < MaxSent
    /\ pcs' = [pcs EXCEPT ![tasks[i].pc].localSet = TRUE]
    /\ IF socketRef # NoSocket
       THEN /\ sent' = EmitSent(AnswerEnvelope(tasks[i].sender))
            /\ sockets' = EmitSockets(AnswerEnvelope(tasks[i].sender))
       ELSE UNCHANGED <<sent, sockets>>
    /\ tasks' = RemoveAt(tasks, i)
    /\ UNCHANGED <<state, socketRef, peerConnectionsRef, nStreams, liveTracks,
                   arrivals, dispatched, joinLog, viewer>>

\* setLocalDescription resolved: emit the answer when a socket is held
OfferLocalSet(i) ==
    /\ i \in DOMAIN tasks
    /\ tasks[i].kind = "offer" /\ tasks[i].step = 3
    /\ ~pcs[tasks[i].pc].closed
    /\ socketRef # NoSocket => Emitted < MaxSent
    /\ pcs' = [pcs EXCEPT ![tasks[i].pc].localSet = TRUE]
    /\ IF socketRef # NoSocket
       THEN /\ sent' = EmitSent(AnswerEnvelope(tasks[i].sender))
            /\ sockets' = EmitSockets(AnswerEnvelope(tasks[i].sender))
       ELSE UNCHANGED <<sent, sockets>>
    /\ tasks' = RemoveAt(tasks, i)
    /\ UNCHANGED <<state, socketRef, peerConnectionsRef, nStreams, liveTracks,
                   arrivals, dispatched, joinLog, viewer>>

\* handlers that look the connection up with createPeerConnection, which
\* registers one when there is none
RecvAnswerOrCandidateCreates(type, userId) ==
    /\ Connected
    /\ type \in {"answer", "ice_candidate"}
    /\ Len(tasks) < MaxTasks
    /\ IF userId \in DOMAIN peerConnectionsRef
       THEN /\ tasks' = Append(tasks, Task(type, userId, peerConnectionsRef[userId],
                                           1, NoStream))
            /\ UNCHANGED <<pcs, peerConnectionsRef>>
       ELSE /\ Len(pcs) < MaxPeers
            /\ pcs' = Append(pcs, NewPeer(userId))
            /\ peerConnectionsRef' =
                   [u \in DOMAIN peerConnectionsRef \cup {userId} |->
                       IF u = userId THEN Len(pcs) + 1 ELSE peerConnectionsRef[u]]
            /\ tasks' = Append(tasks, Task(type, userId, Len(pcs) + 1, 1, NoStream))
    /\ UNCHANGED <<state, socketRef, sockets, sent, nStreams, liveTracks,
                   arrivals, dispatched, joinLog, viewer>>

\* handleRemoteAnswer / handleRemoteIceCandidate up to the await; nothing
\* happens without a registered connection; cap bounds the handlers
\* suspended at once
HandleRemoteAnswerOrCandidate(type, userId, cap) ==
    /\ Connected
    /\ type \in {"answer", "ice_candidate"}
    /\ IF userId \in DOMAIN peerConnectionsRef
       THEN /\ Len(tasks) < cap
            /\ tasks' = Append(tasks, Task(type, userId, peerConnectionsRef[userId],
                                           1, NoStream))
       ELSE UNCHANGED tasks
    /\ UNCHANGED <<state, socketRef, sockets, peerConnectionsRef, pcs, sent, nStreams,
                   liveTracks, arrivals, dispatched, joinLog, viewer>>

\* case 'answer' / 'ice_candidate'
RecvAnswerOrCandidate(type, userId) ==
    HandleRemoteAnswerOrCandidate(type, userId, MaxTasks)

\* addIceCandidate resolved (a connection that holds a remote description
\* takes the candidate); nothing follows the await.  setRemoteDescription of an
\* answer never resolves here: no connection of this client ever made an offer.
CandidateApplied(i) ==
    /\ i \in DOMAIN tasks
    /\ tasks[i].kind = "ice_candidate"
    /\ ~pcs[tasks[i].pc].closed
    /\ pcs[tasks[i].pc].remoteSet
    /\ ChainFree(i)
    /\ tasks' = RemoveAt(tasks, i)
    /\ UNCHANGED <<state, socketRef, sockets, peerConnectionsRef, pcs, sent, nStreams,
                   liveTracks, arrivals, dispatched, joinLog, viewer>>

\* a catch that also reports the failure as the Session's error
NegotiationFailedEscalates(i) ==
    /\ i \in DOMAIN tasks
    /\ tasks[i].kind \in {"offer", "answer", "ice_candidate"}
    /\ tasks' = RemoveAt(tasks, i)
    /\ state' = Dispatch(state, <<Set("SET_ERROR", ErrServer)>>)
    /\ UNCHANGED <<socketRef, sockets, peerConnectionsRef, pcs, sent, nStreams,
                   liveTracks, arrivals, dispatched, joinLog, viewer>>

\* an awaited negotiation step rejected (closed connection, bad description,
\* bad candidate): the handler's catch logs it
NegotiationFailed(i) ==
    /\ i \in DOMAIN tasks
    /\ tasks[i].kind \in {"offer", "answer", "ice_candidate"}
    /\ tasks' = RemoveAt(tasks, i)
    /\ UNCHANGED <<state, socketRef, sockets, peerConnectionsRef, pcs, sent, nStreams,
                   liveTracks, arrivals, dispatched, joinLog, viewer>>

\* ------------------------------------------------ peer connection events
\* the connection states a live RTCPeerConnection moves through
PeerNext(s) ==
    CASE s = "new" -> {"connecting"}
      [] s = "connecting" -> {"connected", "failed"}
      [] s = "connected" -> {"failed"}
      [] OTHER -> {}

\* a cleanup that forgets the connection without closing its transport
CleanupPcsLeavesOpen(ps, reg, userId) == ps

\* cleanupPeerConnection(userId): the connections after it
CleanupPcs(ps, reg, userId) ==
    IF userId \in DOMAIN reg
    THEN [ps EXCEPT ![reg[userId]] = ClosedPeer(userId)]
    ELSE ps

\* cleanupPeerConnection(userId): the registry after it
CleanupRegistry(reg, userId) == [u \in DOMAIN reg \ {userId} |-> reg[u]]

\* a cleanup that leaves the participant's remote stream in the state
CleanupDispatchNothing(reg, userId) == <<>>

\* cleanupPeerConnection(userId): what it dispatches
CleanupDispatch(reg, userId) ==
    IF userId \in DOMAIN reg
    THEN <<[type |-> "REMOVE_REMOTE_STREAM", userId |-> userId]>>
    ELSE <<>>

\* peerConnection.onconnectionstatechange
PeerConnectionStateChange(i, s) ==
    /\ i \in DOMAIN pcs
    /\ ~pcs[i].closed
    /\ pcs[i].localSet
    /\ s \in PeerNext(pcs[i].connectionState)
    /\ LET changed == [pcs EXCEPT ![i].connectionState = s]
           userId == pcs[i].userId
       IN IF s \in {"failed", "closed"}
          THEN /\ pcs' = CleanupPcs(changed, peerConnectionsRef, userId)
               /\ peerConnectionsRef' = CleanupRegistry(peerConnectionsRef, userId)
               /\ state' = Dispatch(state,
                               <<Set("SET_CONNECTION_STATE", s)>>
                               \o CleanupDispatch(peerConnectionsRef, userId))
          ELSE /\ pcs' = changed
               /\ state' = Dispatch(state, <<Set("SET_CONNECTION_STATE", s)>>)
               /\ UNCHANGED peerConnectionsRef
    /\ UNCHANGED <<socketRef, sockets, tasks, sent, nStreams, liveTracks,
                   arrivals, dispatched, joinLog, viewer>>

\* peerConnection.ontrack: remote media arrived on connection i
PeerTrack(i) ==
    /\ i \in DOMAIN pcs
    /\ ~pcs[i].closed
    /\ pcs[i].remoteSet
    /\ state' = Dispatch(state, <<[type |-> "ADD_REMOTE_STREAM",
                                   userId |-> pcs[i].userId, stream |-> i]>>)
    /\ UNCHANGED <<socketRef, sockets, peerConnectionsRef, pcs, tasks, sent, nStreams,
                   liveTracks, arrivals, dispatched, joinLog, viewer>>

\* the ice_candidate envelope onicecandidate emits
CandidateEnvelope(userId) ==
    Envelope("ice_candidate", <<>>, userId, routerState.currentStreamId)

\* peerConnection.onicecandidate with a candidate
PeerIceCandidate(i) ==
    /\ i \in DOMAIN pcs
    /\ ~pcs[i].closed
    /\ pcs[i].localSet
    /\ socketRef # NoSocket
    /\ Emitted < MaxSent
    /\ sent' = EmitSent(CandidateEnvelope(pcs[i].userId))
    /\ sockets' = EmitSockets(CandidateEnvelope(pcs[i].userId))
    /\ UNCHANGED <<state, socketRef, peerConnectionsRef, pcs, tasks, nStreams,
                   liveTracks, arrivals, dispatched, joinLog, viewer>>

\* ------------------------------------------------ StreamViewer component
\* hasRole(role) of AuthContext
hasRole(user, role) == role \in user.roles

\* canAccessStream(streamType) of AuthContext, for the user it was rendered with
canAccessStream(user, streamType) ==
    IF ~user.loggedIn THEN streamType = "public"
    ELSE IF hasRole(user, "admin") THEN TRUE
    ELSE CASE streamType = "public" -> TRUE
           [] streamType = "private" ->
                  \/ user.subscription_tier \in {"premium", "vip"}
                  \/ hasRole(user, "model")
           [] streamType = "premium" -> user.subscription_tier \in {"premium", "vip"}
           [] OTHER -> FALSE

\* one loadStreamInfo() suspended at `await axios.get(...)`: the streamId and
\* the canAccessStream (that is, the user) of the render that called it
Load(streamId, user) == [streamId |-> streamId, user |-> user]

\* the parent shows the viewer for streamId: the effect on [streamId, isOpen]
\* calls loadStreamInfo(), which runs up to its await
OpenViewer(streamId) ==
    /\ ~viewer.isOpen \/ viewer.streamId # streamId
    /\ Len(viewer.loads) < MaxLoads
    /\ viewer' = [viewer EXCEPT !.isOpen = TRUE, !.streamId = streamId,
                                !.loading = TRUE,
                                !.loads = Append(@, Load(streamId, viewer.user))]
    /\ UNCHANGED <<state, socketRef, sockets, peerConnectionsRef, pcs, tasks, sent,
                   nStreams, liveTracks, arrivals, dispatched, joinLog>>

\* onClose(): the parent stops showing the viewer
OnClose(v) == [v EXCEPT !.isOpen = FALSE]

\* a loadStreamInfo that joins without asking canAccessStream
LoadStreamInfoUnchecked(i, streamType) ==
    /\ i \in DOMAIN viewer.loads
    /\ JoinStreamCall(viewer.loads[i].streamId)
    /\ viewer' = [viewer EXCEPT
                      !.streamInfo = [streamId |-> viewer.loads[i].streamId,
                                      stream_type |-> streamType],
                      !.loading = FALSE, !.loads = RemoveAt(@, i)]

\* loadStreamInfo() after axios.get resolved with metadata of type streamType
LoadStreamInfo(i, streamType) ==
    /\ i \in DOMAIN viewer.loads
    /\ LET load == viewer.loads[i]
           info == [streamId |-> load.streamId, stream_type |-> streamType]
           done == [viewer EXCEPT !.streamInfo = info, !.loading = FALSE,
                                  !.loads = RemoveAt(@, i)]
       IN IF canAccessStream(load.user, streamType)
          THEN /\ JoinStreamCall(load.streamId)
               /\ viewer' = done
          ELSE /\ viewer' = OnClose(done)
               /\ UNCHANGED <<state, socketRef, sockets, peerConnectionsRef, pcs,
                              tasks, sent, nStreams, liveTracks, arrivals,
                              dispatched, joinLog>>

\* loadStreamInfo() after axios.get rejected: the catch alerts and closes
LoadStreamInfoFailed(i) ==
    /\ i \in DOMAIN viewer.loads
    /\ viewer' = OnClose([viewer EXCEPT !.loading = FALSE,
                                        !.loads = RemoveAt(@, i)])
    /\ UNCHANGED <<state, socketRef, sockets, peerConnectionsRef, pcs, tasks, sent,
                   nStreams, liveTracks, arrivals, dispatched, joinLog>>

\* handleLeave(): stopViewing() and onClose()
HandleLeave ==
    /\ viewer.isOpen
    /\ StopViewingBody
    /\ viewer' = OnClose(viewer)

\* setUser(...) of AuthContext (login, logout, profile refresh): the viewer is
\* rendered again with the new user
SetUser(user) ==
    /\ user # viewer.user
    /\ viewer' = [viewer EXCEPT !.user = user]
    /\ UNCHANGED <<state, socketRef, sockets, peerConnectionsRef, pcs, tasks, sent,
                   nStreams, liveTracks, arrivals, dispatched, joinLog>>

\* ------------------------------------------------------- specifications
LoggedTypes == {"user_joined", "user_left", "stream_started", "unknown"}

\* Session lifecycle and negotiation: a streamer or a viewer, its socket and
\* its peers
Next ==
    \/ \E s \in StreamIds : JoinStream(s)
    \/ \E s \in StreamIds : StartStreaming(s)
    \/ \E i \in 1..MaxTasks : CameraGranted(i)
    \/ StopStreaming
    \/ StopViewing
    \/ SocketConnect
    \/ SocketConnectError
    \/ SocketDrop
    \/ RecvStreamEnded
    \/ \E u \in Users : RecvOffer(u)
    \/ \E i \in 1..MaxTasks : OfferRemoteSet(i)
    \/ \E i \in 1..MaxTasks : OfferAnswerCreated(i)
    \/ \E i \in 1..MaxTasks : OfferLocalSet(i)
    \/ \E type \in {"answer", "ice_candidate"}, u \in Users : RecvAnswerOrCandidate(type, u)
    \/ \E i \in 1..MaxTasks : CandidateApplied(i)
    \/ \E i \in 1..MaxTasks : NegotiationFailed(i)
    \/ \E i \in 1..MaxPeers, s \in {"connecting", "connected", "failed"} :
           PeerConnectionStateChange(i, s)
    \/ \E i \in 1..MaxPeers : PeerTrack(i)
    \/ \E i \in 1..MaxPeers : PeerIceCandidate(i)

Spec == Init /\ [][Next]_vars

\* Session lifecycle, chat and errors: no peer ever offers
NextSession ==
    \/ \E s \in StreamIds : JoinStream(s)
    \/ \E s \in StreamIds : StartStreaming(s)
    \/ InitializeCamera
    \/ \E i \in 1..MaxTasks : CameraGranted(i)
    \/ \E i \in 1..MaxTasks : CameraDenied(i)
    \/ \E m \in Texts : SendChatMessage(m)
    \/ StopStreaming
    \/ StopViewing
    \/ SocketConnect
    \/ SocketConnectError
    \/ SocketDrop
    \/ RecvChatMessage(MaxChat)
    \/ \E type \in LoggedTypes : RecvLogged(type)
    \/ \E frame \in MalformedFrames : RecvMalformed(frame)
    \/ RecvStreamEnded
    \/ RecvError

SpecSession == Init /\ [][NextSession]_vars

\* One viewer Session with several envelopes of its peers in handling at once
NextNegotiation ==
    \/ \E s \in StreamIds : JoinStream(s)
    \/ StopViewing
    \/ SocketConnect
    \/ \E u \in Users : HandleRemoteOffer(u, MaxHandlers)
    \/ \E i \in 1..MaxHandlers : OfferRemoteSet(i)
    \/ \E i \in 1..MaxHandlers : OfferAnswerCreated(i)
    \/ \E i \in 1..MaxHandlers : OfferLocalSet(i)
    \/ \E type \in {"answer", "ice_candidate"}, u \in Users :
           HandleRemoteAnswerOrCandidate(type, u, MaxHandlers)
    \/ \E i \in 1..MaxHandlers : CandidateApplied(i)
    \/ \E i \in 1..MaxHandlers : NegotiationFailed(i)

SpecNegotiation == Init /\ [][NextNegotiation]_vars

\* A viewer's chat log over a long run of chat_message envelopes
NextChat ==
    \/ \E s \in StreamIds : JoinStream(s)
    \/ StopStreaming
    \/ StopViewing
    \/ SocketConnect
    \/ SocketDrop
    \/ RecvChatMessage(MaxAppends)

SpecChat == Init /\ [][NextChat]_vars

\* The state store alone: dispatch(action) for every action kind of the reducer
Store(action) ==
    /\ state' = webrtcReducer(state, action)
    /\ UNCHANGED <<socketRef, sockets, peerConnectionsRef, pcs, tasks, sent, nStreams,
                   liveTracks, arrivals, dispatched, joinLog, viewer>>

StoreReset == Store(Act("RESET_STATE"))

NextStore ==
    \/ \E p \in {NoMedia, 1} : Store(Set("SET_LOCAL_STREAM", p))
    \/ \E u \in Users :
           Store([type |-> "ADD_REMOTE_STREAM", userId |-> u, stream |-> 1])
    \/ \E u \in Users : Store([type |-> "REMOVE_REMOTE_STREAM", userId |-> u])
    \/ \E b \in BOOLEAN : Store(Set("SET_STREAMING", b))
    \/ \E b \in BOOLEAN : Store(Set("SET_VIEWING", b))
    \/ \E c \in {"disconnected", "connecting", "failed"} :
           Store(Set("SET_CONNECTION_STATE", c))
    \/ \E m \in 1..2 :
           /\ Len(state.chatMessages) < MaxChat
           /\ Store([type |-> "ADD_CHAT_MESSAGE", message |-> m])
    \/ \E p \in {NoInfo, "info"} : Store(Set("SET_STREAM_INFO", p))
    \/ \E p \in {{}, {"u1"}} : Store(Set("UPDATE_VIEWERS", p))
    \/ \E p \in {NoError, ErrServer} : Store(Set("SET_ERROR", p))
    \/ \E b \in BOOLEAN : Store(Set("SET_CONNECTED", b))
    \/ \E s \in StreamIds \cup {NoStream} : Store(Set("SET_CURRENT_STREAM", s))
    \/ Store(Act("CLEAR_CHAT"))
    \/ StoreReset
    \/ Store(Act("UNKNOWN"))

SpecStore == Init /\ [][NextStore]_vars

\* The remote streams of the store over runs of ADD_REMOTE_STREAM and
\* REMOVE_REMOTE_STREAM; dispatched records each action (stream NoMedia for a
\* removal)
DispatchAdd(userId, stream) ==
    /\ Len(dispatched) < MaxRun
    /\ state' = webrtcReducer(state, [type |-> "ADD_REMOTE_STREAM",
                                      userId |-> userId, stream |-> stream])
    /\ dispatched' = Append(dispatched, [userId |-> userId, stream |-> stream])
    /\ UNCHANGED <<socketRef, sockets, peerConnectionsRef, pcs, tasks, sent, nStreams,
                   liveTracks, arrivals, joinLog, viewer>>

DispatchRemove(userId) ==
    /\ Len(dispatched) < MaxRun
    /\ state' = webrtcReducer(state, [type |-> "REMOVE_REMOTE_STREAM",
                                      userId |-> userId])
    /\ dispatched' = Append(dispatched, [userId |-> userId, stream |-> NoMedia])
    /\ UNCHANGED <<socketRef, sockets, peerConnectionsRef, pcs, tasks, sent, nStreams,
                   liveTracks, arrivals, joinLog, viewer>>

NextRoster ==
    \/ \E u \in Users, m \in RemoteMedia : DispatchAdd(u, m)
    \/ \E u \in Users : DispatchRemove(u)

SpecRoster == Init /\ [][NextRoster]_vars

\* ------------------------------------------------------------ properties

\* C1: the chat log never holds more than 100 entries, and it always equals
\* the last 100 (or all, when fewer) of the messages appended since it was
\* last emptied, in their order of arrival.
ChatLogIsLastHundred ==
    LET log == state.chatMessages
        n == Len(arrivals)
    IN /\ Len(log) <= 100
       /\ Len(log) = IF n > 100 THEN 100 ELSE n
       /\ \A i \in 1..Len(log) : log[i] = arrivals[n - Len(log) + i]

\* more than 100 messages arrived and the oldest ones are gone
ChatLogOverflowed ==
    /\ Len(arrivals) > 100
    /\ Len(state.chatMessages) = 100
    /\ state.chatMessages[1] = Len(arrivals) - 99
    /\ state.chatMessages[100] = Len(arrivals)

\* C2: a RESET_STATE transition leaves localStream as it was and puts every
\* other field at its initial value.
ResetKeepsOnlyLocalStream ==
    [][StoreReset =>
        /\ state'.localStream = state.localStream
        /\ state'.remoteStreams = EmptyMap
        /\ state'.isStreaming = FALSE
        /\ state'.isViewing = FALSE
        /\ state'.connectionState = "disconnected"
        /\ state'.chatMessages = <<>>
        /\ state'.streamInfo = NoInfo
        /\ state'.viewers = {}
        /\ state'.error = NoError
        /\ state'.isConnected = FALSE
        /\ state'.currentStreamId = NoStream]_vars

\* a store holding a local stream and nothing else: what a reset leaves
ResetWithLocalStream ==
    /\ state.localStream # NoMedia
    /\ state = [initialState EXCEPT !.localStream = state.localStream]

\* the Session state a reset leaves when the local stream was m
ResetStateWith(m) ==
    [localStream |-> m, remoteStreams |-> EmptyMap, isStreaming |-> FALSE,
     isViewing |-> FALSE, connectionState |-> "disconnected", chatMessages |-> <<>>,
     streamInfo |-> NoInfo, viewers |-> {}, error |-> NoError, isConnected |-> FALSE,
     currentStreamId |-> NoStream]

\* calling stopStreaming() now would change nothing
StopStreamingSettled ==
    /\ StoppedTracks(liveTracks, state.localStream) = liveTracks
    /\ CloseAll(pcs, peerConnectionsRef) = pcs
    /\ peerConnectionsRef = EmptyMap
    /\ Disconnected(sockets, socketRef) = sockets
    /\ Dispatch(state, StopStreamingDispatch(sockets, socketRef)) = state

\* C3: after stopStreaming a second stopStreaming changes neither the Session
\* state, nor the registry, nor the socket, and the Session state is the reset
\* state (initial values, the local stream kept).
StopStreamingIdempotent ==
    [][StopStreaming =>
        /\ StopStreamingSettled'
        /\ state' = ResetStateWith(state.localStream)]_vars

\* a streamer with a peer has stopped: tracks stopped, peer closed, socket closed
StreamerStopped ==
    /\ state.localStream # NoMedia
    /\ state.localStream \notin liveTracks
    /\ state = ResetStateWith(state.localStream)
    /\ socketRef # NoSocket /\ sockets[socketRef].status = "closed"
    /\ peerConnectionsRef = EmptyMap
    /\ \E i \in DOMAIN pcs : pcs[i].closed

\* C4 (as claimed): after stopViewing every registered connection is closed
\* and removed, the socket is closed, and the Session state is the reset state.
StopViewingResetsSession ==
    [][StopViewing =>
        /\ peerConnectionsRef' = EmptyMap
        /\ \A u \in DOMAIN peerConnectionsRef : pcs'[peerConnectionsRef[u]].closed
        /\ socketRef # NoSocket => sockets'[socketRef'].status = "closed"
        /\ state' = ResetStateWith(state.localStream)]_vars

\* answer envelopes addressed to p among those written or buffered
AnswersIn(s, p) ==
    Cardinality({i \in DOMAIN s : s[i].type = "answer" /\ s[i].target_id = p})

RECURSIVE BufferedAnswers(_, _, _)
BufferedAnswers(socks, i, p) ==
    IF i = 0 THEN 0
    ELSE AnswersIn(socks[i].buffer, p) + BufferedAnswers(socks, i - 1, p)

AnswerCount(snt, socks, p) == AnswersIn(snt, p) + BufferedAnswers(socks, Len(socks), p)

\* C5: when the handling of an offer from P completes on a connected socket,
\* exactly one envelope is written, an answer addressed to P; and no step
\* other than the completion of an offer from P emits an answer for P.
OfferAnsweredOnce ==
    [][/\ \A i \in DOMAIN tasks :
            (OfferLocalSet(i) /\ Connected) =>
                /\ Len(sent') = Len(sent) + 1
                /\ SubSeq(sent', 1, Len(sent)) = sent
                /\ sent'[Len(sent')].type = "answer"
                /\ sent'[Len(sent')].target_id = tasks[i].sender
       /\ \A p \in Users :
            AnswerCount(sent', sockets', p) > AnswerCount(sent, sockets, p) =>
                /\ AnswerCount(sent', sockets', p) = AnswerCount(sent, sockets, p) + 1
                /\ \E i \in DOMAIN tasks : tasks[i].sender = p /\ OfferLocalSet(i)
      ]_vars

\* the negotiation with u1 completed and its answer is on the wire
AnswerOnWire ==
    /\ "u1" \in DOMAIN peerConnectionsRef
    /\ pcs[peerConnectionsRef["u1"]].localSet
    /\ tasks = <<>>
    /\ AnswersIn(sent, "u1") = 1
    /\ AnswersIn(sent, "u2") = 0

\* C6: an answer or ice_candidate envelope from a participant without a
\* registered connection changes nothing: no connection is created, the
\* registry, the Session state and the pending handlers stay as they were,
\* nothing is emitted.
AnswerOrCandidateWithoutPeer ==
    [][\A type \in {"answer", "ice_candidate"}, u \in Users :
          (u \notin DOMAIN peerConnectionsRef /\ RecvAnswerOrCandidate(type, u)) =>
              UNCHANGED <<state, peerConnectionsRef, pcs, tasks, sent, sockets,
                          socketRef>>]_vars

\* connected, u1 has a connection and u2 has none: an answer or candidate
\* from u2 finds no connection, and the state it leaves is this state
PeerlessSenderOnLiveSession ==
    /\ Connected
    /\ DOMAIN peerConnectionsRef = {"u1"}
    /\ Len(pcs) = 1
    /\ tasks = <<>>

\* C7: an inbound stream_ended envelope runs stopViewing: connectionState is
\* disconnected, isViewing and isConnected are false, every registered
\* connection is closed and removed, the socket is disconnected.
StreamEndedStopsViewing ==
    [][RecvStreamEnded =>
        /\ state'.connectionState = "disconnected"
        /\ ~state'.isViewing
        /\ ~state'.isConnected
        /\ peerConnectionsRef' = EmptyMap
        /\ \A u \in DOMAIN peerConnectionsRef : pcs'[peerConnectionsRef[u]].closed
        /\ sockets'[socketRef'].status = "closed"]_vars

\* a viewer that joined, negotiated with a peer and was stopped
ViewerStopped ==
    /\ ~state.isViewing /\ ~state.isStreaming /\ ~state.isConnected
    /\ state.connectionState = "disconnected"
    /\ state.currentStreamId # NoStream
    /\ socketRef # NoSocket /\ sockets[socketRef].status = "closed"
    /\ peerConnectionsRef = EmptyMap
    /\ \E i \in DOMAIN pcs : pcs[i].closed

\* c is m without its leading and trailing whitespace
IsTrimOf(c, m) ==
    \E i \in 0..Len(m), j \in 0..Len(m) :
        /\ i + Len(c) + j = Len(m)
        /\ \A k \in 1..i : m[k] = " "
        /\ \A k \in 1..j : m[Len(m) - k + 1] = " "
        /\ SubSeq(m, i + 1, i + Len(c)) = c
        /\ c = <<>> \/ (c[1] # " " /\ c[Len(c)] # " ")

\* C8: while connected, sendChatMessage(text) writes exactly one envelope, a
\* chat_message whose content is text without leading and trailing whitespace
\* and whose stream_id is the stream of the socket the Session is connected on.
ChatSentTrimmed ==
    [][\A m \in Texts :
          (SendChatMessage(m) /\ socketRef # NoSocket /\ state.isConnected) =>
              /\ sockets[socketRef].status = "connected"
              /\ Len(sent') = Len(sent) + 1
              /\ SubSeq(sent', 1, Len(sent)) = sent
              /\ sent'[Len(sent')].type = "chat_message"
              /\ IsTrimOf(sent'[Len(sent')].content, m)
              /\ sent'[Len(sent')].stream_id = sockets[socketRef].streamId]_vars

\* a chat message sent in a second Session, for s2, after one for s1
ChatOnWire ==
    /\ Len(sockets) = 2
    /\ sockets[1].streamId = "s1"
    /\ sockets[2].streamId = "s2"
    /\ \E i \in DOMAIN sent :
          /\ sent[i].type = "chat_message"
          /\ sent[i].content = <<"a", " ", "a">>
          /\ sent[i].stream_id = "s2"

\* C9: sendChatMessage on a Session that is not connected (isConnected false,
\* or no socket) emits nothing and changes no state.
ChatNotSentOffline ==
    [][\A m \in Texts :
          (SendChatMessage(m) /\ ~(socketRef # NoSocket /\ state.isConnected)) =>
              UNCHANGED vars]_vars

\* a Session whose socket dropped: it holds a socket, is not connected, and
\* nothing was emitted
OfflineWithSocket ==
    /\ socketRef # NoSocket
    /\ sockets[socketRef].status = "dropped"
    /\ ~state.isConnected
    /\ state.isViewing
    /\ Emitted = 0

\* C10: sendChatMessage leaves the chat log as it is, and an entry enters the
\* chat log only in a step that handles an inbound chat_message envelope.
ChatLogOnlyFromRouter ==
    [][/\ \A m \in Texts :
            SendChatMessage(m) => state'.chatMessages = state.chatMessages
       /\ (state'.chatMessages # state.chatMessages /\ state'.chatMessages # <<>>) =>
            (RecvChatMessage(MaxChat) \/ RecvMalformed("chat_message"))]_vars

\* a message was sent and the server has not echoed it: the log is empty
SentNotEchoed ==
    /\ state.isConnected
    /\ \E i \in DOMAIN sent : sent[i].type = "chat_message"
    /\ state.chatMessages = <<>>

\* C11 (as claimed): when a startStreaming completes while an earlier one is
\* still in force (isStreaming true, no stopStreaming in between), the socket
\* of the first Session is closed and every connection registered during the
\* first Session is closed and out of the registry.
StartStreamingClosesFirstSession ==
    [][\A i \in DOMAIN tasks :
          (CameraGranted(i) /\ tasks[i].kind = "start" /\ state.isStreaming) =>
              /\ socketRef # NoSocket => sockets'[socketRef].status = "closed"
              /\ \A u \in DOMAIN peerConnectionsRef :
                    /\ pcs'[peerConnectionsRef[u]].closed
                    /\ u \in DOMAIN peerConnectionsRef' =>
                          peerConnectionsRef'[u] # peerConnectionsRef[u]]_vars

\* C12 (as claimed): at most one Session is live: isStreaming and isViewing
\* are never both true.
OneSessionLive == ~(state.isStreaming /\ state.isViewing)

\* C13 (as claimed): startStreaming is all-or-nothing.  When media access is
\* refused the call fails and leaves isStreaming, the local stream and the
\* socket as they were; and isStreaming is never true for a Session whose
\* signaling channel failed to open.
StartStreamingAllOrNothing ==
    [][/\ \A i \in DOMAIN tasks :
            (CameraDenied(i) /\ tasks[i].kind = "start") =>
                /\ state'.isStreaming = state.isStreaming
                /\ state'.localStream = state.localStream
                /\ UNCHANGED <<socketRef, sockets, nStreams, liveTracks>>
       /\ SocketConnectError => ~state'.isStreaming]_vars

\* C14 (as claimed): at no time do two acquired local streams both have live
\* tracks: a capture that replaces the Session's local stream finds the
\* tracks of the previous one stopped.
OneLiveCapture == Cardinality(liveTracks) <= 1

\* C15: joinStream(s) empties the chat log, sets connectionState to
\* connecting and isViewing to true, holds a new socket opened for s, and
\* leaves the local stream (held, granted or live) as it was.
JoinStreamEffect ==
    [][\A s \in StreamIds :
          JoinStream(s) =>
              /\ state'.chatMessages = <<>>
              /\ state'.connectionState = "connecting"
              /\ state'.isViewing
              /\ socketRef' # NoSocket /\ socketRef' # socketRef
              /\ socketRef' \notin DOMAIN sockets
              /\ sockets'[socketRef'].streamId = s
              /\ sockets'[socketRef'].status = "opening"
              /\ state'.localStream = state.localStream
              /\ UNCHANGED <<nStreams, liveTracks>>]_vars

\* a client holding a live local stream left stream s1 for stream s2: the
\* chat log is empty, the socket for s2 is opening, the stream is still held
ViewerJoinedWithMedia ==
    /\ state.isViewing
    /\ state.connectionState = "connecting"
    /\ state.chatMessages = <<>>
    /\ state.localStream # NoMedia
    /\ state.localStream \in liveTracks
    /\ socketRef = 2
    /\ sockets[1].streamId = "s1" /\ sockets[1].status = "closed"
    /\ sockets[2].streamId = "s2" /\ sockets[2].status = "opening"

\* C16: a participant never has two connections at once: an offer from a
\* participant that has a registered connection is handled on that very
\* connection and constructs none, every registry entry names a connection
\* of its own participant, and the open connections are exactly the
\* registered ones.
OnePeerPerParticipant ==
    [][/\ \A u \in Users :
            (RecvOffer(u) /\ u \in DOMAIN peerConnectionsRef) =>
                /\ UNCHANGED <<pcs, peerConnectionsRef>>
                /\ tasks'[Len(tasks')].pc = peerConnectionsRef[u]
       /\ \A u \in DOMAIN peerConnectionsRef' :
            pcs'[peerConnectionsRef'[u]].userId = u
       /\ \A i \in DOMAIN pcs' :
            ~pcs'[i].closed => peerConnectionsRef'[pcs'[i].userId] = i
       /\ \A i \in DOMAIN pcs', j \in DOMAIN pcs' :
            (~pcs'[i].closed /\ ~pcs'[j].closed /\ pcs'[i].userId = pcs'[j].userId)
                => i = j]_vars

\* a second offer from u1 is being handled on the connection that already
\* answered u1's first offer; no other connection was constructed
SecondOfferOnSamePeer ==
    /\ Len(pcs) = 1
    /\ DOMAIN peerConnectionsRef = {"u1"}
    /\ pcs[1].localSet
    /\ \E i \in DOMAIN tasks :
          tasks[i].kind = "offer" /\ tasks[i].sender = "u1" /\ tasks[i].pc = 1

\* C17 (as claimed): every participant with an entry in the Session's remote
\* streams has a connection in the registry.
RemoteStreamsHavePeers == DOMAIN state.remoteStreams \subseteq DOMAIN peerConnectionsRef

\* the position of the last action of run that names participant u, 0 if none
LastFor(run, u) ==
    LET at == {i \in DOMAIN run : run[i].userId = u}
    IN IF at = {} THEN 0 ELSE CHOOSE i \in at : \A j \in at : j <= i

\* C18: after any run of add-remote-stream and remove-remote-stream actions
\* the keys of the remote streams are exactly the participants whose last
\* action in the run was an add, each mapped to the stream of that add (so
\* removing an absent participant leaves the map as it was).
RosterIsLastAdds ==
    /\ DOMAIN state.remoteStreams =
          {u \in Users : LastFor(dispatched, u) # 0
                         /\ dispatched[LastFor(dispatched, u)].stream # NoMedia}
    /\ \A u \in DOMAIN state.remoteStreams :
          state.remoteStreams[u] = dispatched[LastFor(dispatched, u)].stream

\* u1 was added, removed and added again with another stream, u2 was removed
\* without ever being added: only u1 is kept, with its second stream
RosterAfterReAdd ==
    /\ Len(dispatched) = 4
    /\ dispatched[1] = [userId |-> "u1", stream |-> 1]
    /\ dispatched[2] = [userId |-> "u1", stream |-> NoMedia]
    /\ dispatched[3] = [userId |-> "u2", stream |-> NoMedia]
    /\ dispatched[4] = [userId |-> "u1", stream |-> 2]
    /\ DOMAIN state.remoteStreams = {"u1"}
    /\ state.remoteStreams["u1"] = 2

\* C19: at most one socket is open at any time, the one the client holds:
\* every socket that was replaced is closed (it was disconnected before its
\* successor was created) and has nothing left to write, so no event of a
\* replaced socket can reach the Session that follows.
OneSocketOpen ==
    \A i \in DOMAIN sockets :
        i # socketRef => sockets[i].status = "closed" /\ sockets[i].buffer = <<>>

\* the socket of a first Session was connected, then replaced: it is closed
\* and the second one is connected
SocketReplaced ==
    /\ Len(sockets) = 2
    /\ socketRef = 2
    /\ sockets[1].status = "closed"
    /\ sockets[2].status = "connected"
    /\ state.isConnected
    /\ state.currentStreamId = sockets[2].streamId
    /\ sockets[1].streamId # sockets[2].streamId

\* C20 (as claimed): a frame that cannot be parsed, lacks the data its type
\* requires, or has an unrecognized type is dropped: the step that handles it
\* changes no Session state, no registry entry, no pending negotiation, and
\* transmits nothing.
MalformedFrameDropped ==
    [][((\E frame \in MalformedFrames : RecvMalformed(frame))
        \/ RecvLogged("unknown")) => UNCHANGED vars]_vars

\* C21: an inbound error envelope sets error to the message it carries and
\* changes nothing else: the other fields of the Session state, the socket,
\* the registry, the connections, the pending handlers and the wire are as
\* they were.
ErrorEnvelopeOnlySetsError ==
    [][RecvError =>
        /\ state' = [state EXCEPT !.error = ErrServer]
        /\ UNCHANGED <<socketRef, sockets, peerConnectionsRef, pcs, tasks, sent,
                       nStreams, liveTracks, arrivals>>]_vars

\* a connected viewer with a chat log has received an error envelope and is
\* still viewing, connected, with its log
ErrorShownSessionAlive ==
    /\ state.error = ErrServer
    /\ state.isViewing
    /\ state.isConnected
    /\ Connected
    /\ state.chatMessages # <<>>
    /\ state.connectionState = "connecting"

\* the connection states the Session is said to take, and the moves between them
SessionStates == {"disconnected", "connecting", "connected", "streaming", "viewing"}

SessionMoves ==
    {<<"disconnected", "connecting">>, <<"connecting", "connected">>,
     <<"connected", "streaming">>, <<"connected", "viewing">>}
    \cup {<<s, "disconnected">> : s \in SessionStates}

\* C22 (as claimed): connectionState only takes the values disconnected,
\* connecting, connected, streaming and viewing, and it only changes along
\* disconnected -> connecting -> connected -> {streaming, viewing} or back to
\* disconnected.
ConnectionStateMachine ==
    [][/\ state'.connectionState \in SessionStates
       /\ state'.connectionState # state.connectionState =>
             <<state.connectionState, state'.connectionState>> \in SessionMoves]_vars

\* C23 (as claimed): the socket's connect event moves connectionState to
\* connected together with isConnected = true, so a Session whose socket is
\* connected never still reports connecting.
ConnectMovesToConnected ==
    [][SocketConnect =>
        /\ state'.isConnected
        /\ state'.connectionState = "connected"]_vars

\* C24 (as claimed): when the signaling transport drops or fails to connect,
\* connectionState becomes disconnected and an error is recorded, while the
\* Session stays: isStreaming, isViewing, the chat log, the local stream and
\* the registered connections are as they were.
TransportLossReported ==
    [][(SocketDrop \/ SocketConnectError) =>
        /\ state'.connectionState = "disconnected"
        /\ state'.error # NoError
        /\ state'.isStreaming = state.isStreaming
        /\ state'.isViewing = state.isViewing
        /\ state'.chatMessages = state.chatMessages
        /\ state'.localStream = state.localStream
        /\ UNCHANGED <<peerConnectionsRef, pcs, liveTracks>>]_vars

\* C25: when the connection of participant u reports failed (or closed), the
\* connection is closed, u leaves the registry and the remote streams, the
\* registry entries, connections and remote streams of the other
\* participants are as they were, and running the teardown for u once more
\* changes nothing.
PeerFailureTearsDownOne ==
    [][\A i \in DOMAIN pcs, s \in {"failed", "closed"} :
          PeerConnectionStateChange(i, s) =>
              LET u == pcs[i].userId IN
              /\ pcs'[i].closed
              /\ u \notin DOMAIN peerConnectionsRef'
              /\ u \notin DOMAIN state'.remoteStreams
              /\ DOMAIN peerConnectionsRef' = DOMAIN peerConnectionsRef \ {u}
              /\ DOMAIN state'.remoteStreams = DOMAIN state.remoteStreams \ {u}
              /\ \A v \in DOMAIN peerConnectionsRef' :
                    /\ peerConnectionsRef'[v] = peerConnectionsRef[v]
                    /\ pcs'[peerConnectionsRef[v]] = pcs[peerConnectionsRef[v]]
              /\ \A v \in DOMAIN state'.remoteStreams :
                    state'.remoteStreams[v] = state.remoteStreams[v]
              /\ CleanupPcs(pcs', peerConnectionsRef', u) = pcs'
              /\ CleanupRegistry(peerConnectionsRef', u) = peerConnectionsRef'
              /\ Dispatch(state', CleanupDispatch(peerConnectionsRef', u)) = state'
      ]_vars

\* u1's connection failed and was torn down while u2's connection and remote
\* stream stayed
OnePeerFailedOtherKept ==
    /\ state.connectionState = "failed"
    /\ DOMAIN peerConnectionsRef = {"u2"}
    /\ DOMAIN state.remoteStreams = {"u2"}
    /\ ~pcs[peerConnectionsRef["u2"]].closed
    /\ \E i \in DOMAIN pcs : pcs[i].userId = "u1" /\ pcs[i].closed

\* C26 (as claimed): when the remote description of an offer has been applied
\* while the Session holds a local stream, the tracks of that stream are
\* attached to the connection before the answer is created.
LocalTracksAttachedOnOffer ==
    [][\A i \in DOMAIN tasks :
          (OfferRemoteSet(i) /\ state.localStream # NoMedia) =>
              state.localStream \in pcs'[tasks[i].pc].tracks]_vars

\* C27 (as claimed): every answer and every ice_candidate envelope the client
\* writes carries the stream id of the Session current when it is sent, never
\* null nor an earlier Session's; and each candidate a connection discovers
\* is written as one envelope addressed to that connection's participant.
NegotiationEnvelopesTagged ==
    [][/\ \A k \in DOMAIN sent' :
            sent'[k].type \in {"answer", "ice_candidate"} =>
                sent'[k].stream_id \in StreamIds
       /\ \A i \in DOMAIN pcs :
            (PeerIceCandidate(i) /\ Connected) =>
                /\ Len(sent') = Len(sent) + 1
                /\ sent'[Len(sent')].type = "ice_candidate"
                /\ sent'[Len(sent')].target_id = pcs[i].userId
                /\ sent'[Len(sent')].stream_id = sockets[socketRef].streamId
       /\ \A i \in DOMAIN tasks :
            (OfferLocalSet(i) /\ Connected) =>
                sent'[Len(sent')].stream_id = sockets[socketRef].streamId]_vars

\* the handler suspended as task i works on a connection that was closed
\* (by stopStreaming, stopViewing or a teardown) while it was suspended
Stale(i) ==
    /\ tasks[i].kind \in {"offer", "answer", "ice_candidate"}
    /\ pcs[tasks[i].pc].closed

StaleStartDoesNothing ==
    [][\A i \in DOMAIN tasks :
          (CameraGranted(i) /\ tasks[i].kind = "start" /\ tasks[i].step = 1) =>
              /\ UNCHANGED <<socketRef, sockets>>
              /\ state'.isStreaming = state.isStreaming
              /\ state'.connectionState = state.connectionState]_vars

\* C30 (as claimed): envelopes of one participant take effect in arrival
\* order: when a candidate is applied to a connection, or the remote
\* description of an offer is, no offer that arrived earlier for the same
\* connection is still being processed.
OfferCompletesBeforeNext ==
    [][\A i \in DOMAIN tasks :
          (CandidateApplied(i) \/ OfferRemoteSet(i)) =>
              \A j \in 1..(i - 1) :
                  ~(tasks[j].kind = "offer" /\ tasks[j].pc = tasks[i].pc)]_vars

\* C31: a negotiation step that is rejected for one participant only ends
\* its handler: the Session state (error, isStreaming, isViewing, isConnected,
\* remote streams), the socket, the wire, the registry and every connection
\* are as they were, and the failing participant still has at most one open
\* connection, the registered one.
NegotiationFailureConfined ==
    [][\A i \in DOMAIN tasks :
          NegotiationFailed(i) =>
              /\ UNCHANGED <<state, socketRef, sockets, sent, peerConnectionsRef, pcs>>
              /\ \A k \in DOMAIN pcs' :
                    (pcs'[k].userId = tasks[i].sender /\ ~pcs'[k].closed) =>
                        peerConnectionsRef'[tasks[i].sender] = k]_vars

\* u1's offer was rejected before its remote description was applied (its
\* connection is registered, untouched, with no handler left) while u2's
\* connection is negotiated, the Session connected and without error
FailedOfferBesideGoodPeer ==
    /\ tasks = <<>>
    /\ Connected
    /\ state.error = NoError
    /\ state.isViewing /\ state.isConnected
    /\ DOMAIN peerConnectionsRef = {"u1", "u2"}
    /\ ~pcs[peerConnectionsRef["u1"]].remoteSet
    /\ ~pcs[peerConnectionsRef["u1"]].closed
    /\ pcs[peerConnectionsRef["u2"]].localSet

\* The router handling user_joined / user_left envelopes within viewer
\* Sessions
NextPresence ==
    \/ \E streamId \in StreamIds : JoinStream(streamId)
    \/ StopViewing
    \/ SocketConnect
    \/ SocketDrop
    \/ \E type \in {"user_joined", "user_left"}, u \in Users : RecvPresence(type, u)

SpecPresence == Init /\ [][NextPresence]_vars

\* C32: once a user_joined envelope for participant U has been routed, the
\* roster (viewers) contains U.
JoinedEntersRoster ==
    [][\A u \in Users :
          RecvPresence("user_joined", u) => u \in state'.viewers]_vars

\* C33: a stream_ended envelope received while isStreaming is true does not
\* leave the client with isStreaming true, live local tracks and a signaling
\* socket it has itself disconnected.
StreamEndedKeepsStreamerWhole ==
    [][(RecvStreamEnded /\ state.isStreaming) =>
          ~(/\ state'.isStreaming
            /\ liveTracks' # {}
            /\ sockets'[socketRef'].status = "closed")]_vars

\* C34: a connection-state or track event is raised only by the connection
\* registered for its participant, and handling it changes no other
\* connection and no other participant's registry entry or remote stream: a
\* replaced or torn-down transport never acts on its successor.
TransportEventsOwnPeer ==
    [][\A i \in DOMAIN pcs :
          ((\E s \in {"connecting", "connected", "disconnected", "failed", "closed"} :
                PeerConnectionStateChange(i, s)) \/ PeerTrack(i)) =>
              /\ pcs[i].userId \in DOMAIN peerConnectionsRef
              /\ peerConnectionsRef[pcs[i].userId] = i
              /\ \A k \in DOMAIN pcs \ {i} : pcs'[k] = pcs[k]
              /\ \A u \in DOMAIN peerConnectionsRef \ {pcs[i].userId} :
                    /\ u \in DOMAIN peerConnectionsRef'
                    /\ peerConnectionsRef'[u] = peerConnectionsRef[u]
              /\ \A u \in Users \ {pcs[i].userId} :
                    /\ (u \in DOMAIN state.remoteStreams)
                          <=> (u \in DOMAIN state'.remoteStreams)
                    /\ u \in DOMAIN state.remoteStreams =>
                          state'.remoteStreams[u] = state.remoteStreams[u]]_vars

\* u1's first connection was torn down, a second one is registered for u1
\* and its track has been added as u1's remote stream
SuccessorPeerHasStream ==
    /\ Len(pcs) = 2
    /\ pcs[1] = ClosedPeer("u1")
    /\ pcs[2].userId = "u1" /\ ~pcs[2].closed
    /\ "u1" \in DOMAIN peerConnectionsRef /\ peerConnectionsRef["u1"] = 2
    /\ "u1" \in DOMAIN state.remoteStreams /\ state.remoteStreams["u1"] = 2

\* C35: whenever isConnected is true the socket held in socketRef is
\* connected and currentStreamId is the stream that socket was opened for.
ConnectedMeansSocketConnected ==
    state.isConnected =>
        /\ Connected
        /\ state.currentStreamId = sockets[socketRef].streamId

\* a second Session on another stream is connected, the first Session's
\* socket having been disconnected
ConnectedOnSecondStream ==
    /\ state.isConnected
    /\ socketRef = 2
    /\ sockets[1].status = "closed"
    /\ sockets[1].streamId # sockets[2].streamId
    /\ state.currentStreamId = sockets[2].streamId

\* the client holds no open socket, no registered connection and is not
\* connected: the condition stopStreaming and stopViewing leave behind
Quiet ==
    /\ ~state.isConnected
    /\ peerConnectionsRef = EmptyMap
    /\ socketRef # NoSocket => sockets[socketRef].status = "closed"

\* Quiet, and every startStreaming still awaiting its media was called before
\* the stop
Stopped ==
    /\ Quiet
    /\ \A i \in DOMAIN tasks : tasks[i].kind = "start" => tasks[i].step = 1

\* C36 (as claimed): once stopStreaming or stopViewing has returned, and
\* until startStreaming or joinStream is called again, the client stays as
\* the stop left it: isConnected false, the registry empty, no socket open
\* (so no envelope is handled), whatever is still pending.
StoppedStaysStopped ==
    [][(Stopped /\ ~\E s \in StreamIds : JoinStream(s) \/ StartStreaming(s)) =>
          Stopped']_vars

\* C37 (as claimed): a Session begun by joinStream or startStreaming after
\* the earlier Session was stopped starts with an empty chat log, at the call
\* and when startStreaming completes.
NewSessionChatEmpty ==
    [][/\ (\E s \in StreamIds : JoinStream(s)) => state'.chatMessages = <<>>
       /\ ((\E s \in StreamIds : StartStreaming(s))
              /\ ~state.isViewing /\ ~state.isStreaming) =>
              state'.chatMessages = <<>>
       /\ \A i \in DOMAIN tasks :
              (CameraGranted(i) /\ tasks[i].kind = "start"
                  /\ ~state.isViewing /\ ~state.isStreaming) =>
                  state'.chatMessages = <<>>]_vars

\* the envelope types the client writes
ClientTypes == {"answer", "ice_candidate", "chat_message"}

\* C38: every envelope the client has written or buffered is an answer, an
\* ice_candidate or a chat_message, never an offer; a connection enters the
\* registry only while an inbound offer is routed; and the handler of an
\* inbound answer ends without changing any connection.
ClientNeverInitiates ==
    [][/\ \A k \in DOMAIN sent' : sent'[k].type \in ClientTypes
       /\ \A s \in DOMAIN sockets' :
             \A k \in DOMAIN sockets'[s].buffer :
                 sockets'[s].buffer[k].type \in ClientTypes
       /\ \A u \in Users :
             (/\ u \in DOMAIN peerConnectionsRef'
              /\ u \in DOMAIN peerConnectionsRef =>
                     peerConnectionsRef'[u] # peerConnectionsRef[u]) =>
                 RecvOffer(u)
       /\ \A i \in DOMAIN tasks :
             (tasks[i].kind = "answer" /\ tasks' = RemoveAt(tasks, i)) =>
                 UNCHANGED pcs]_vars

\* a candidate for u1 is on the wire, u1's connection being registered and
\* negotiated
CandidateOnWire ==
    /\ \E k \in DOMAIN sent :
          sent[k].type = "ice_candidate" /\ sent[k].target_id = "u1"
    /\ "u1" \in DOMAIN peerConnectionsRef
    /\ pcs[peerConnectionsRef["u1"]].localSet

\* The viewer component: it is opened, loads the stream's metadata, asks
\* canAccessStream and joins, or is closed; the user logs in and out meanwhile
NextViewer ==
    \/ \E streamId \in StreamIds : OpenViewer(streamId)
    \/ \E i \in 1..MaxLoads, streamType \in StreamTypes : LoadStreamInfo(i, streamType)
    \/ \E i \in 1..MaxLoads : LoadStreamInfoFailed(i)
    \/ HandleLeave
    \/ \E user \in Accounts \cup {NoUser} : SetUser(user)
    \/ SocketConnect

SpecViewer == Init /\ [][NextViewer]_vars

\* C39: the viewer component holds a new socket (joinStream ran) only in the
\* step in which a loadStreamInfo received the metadata of its stream and
\* canAccessStream accepted the stream type, and the socket is opened for
\* that stream; a loadStreamInfo that is refused or whose request fails
\* changes nothing of the Session and leaves the viewer closed.
ViewerJoinsOnlyWhenAllowed ==
    [][/\ socketRef' # socketRef =>
              \E i \in DOMAIN viewer.loads, streamType \in StreamTypes :
                  /\ LoadStreamInfo(i, streamType)
                  /\ canAccessStream(viewer.loads[i].user, streamType)
                  /\ viewer'.streamInfo = [streamId |-> viewer.loads[i].streamId,
                                           stream_type |-> streamType]
                  /\ sockets'[socketRef'].streamId = viewer.loads[i].streamId
       /\ \A i \in DOMAIN viewer.loads :
              (\/ LoadStreamInfoFailed(i)
               \/ \E streamType \in StreamTypes :
                      /\ LoadStreamInfo(i, streamType)
                      /\ ~canAccessStream(viewer.loads[i].user, streamType)) =>
                  /\ UNCHANGED <<state, socketRef, sockets>>
                  /\ ~viewer'.isOpen]_vars

\* a visitor who is not logged in was refused a premium stream (the viewer
\* is closed, nothing joined), after a public stream had been joined
RefusedAfterJoin ==
    /\ ~viewer.user.loggedIn
    /\ viewer.streamInfo.stream_type = "premium"
    /\ ~viewer.isOpen
    /\ viewer.loads = <<>>
    /\ Len(sockets) = 1
    /\ sockets[1].streamId # viewer.streamInfo.streamId
    /\ state.isViewing

====
